---- MODULE Spec2Model ----
(***************************************************************************)
(* Model of src/server.js: an Express gateway that relays a small REST     *)
(* surface to the mail.tm HTTP API behind two express-rate-limit limiters. *)
(*                                                                         *)
(* A request occupies a slot from the moment Express receives it until the *)
(* client has read its response.  Every `await axios...` of a handler is a *)
(* point where the handler is suspended and other requests may run, so     *)
(* each handler is one action up to its first await and one action per     *)
(* upstream reply.                                                         *)
(***************************************************************************)
EXTENDS Integers, Sequences, FiniteSets, TLC

----------------------------------------------------------------------------
(* Bounds of the model *)

MaxArrivals == 2          \* requests received in one behaviour
MaxTicks    == 2          \* clock steps in one behaviour
TickMs      == 30000      \* length of one clock step, in milliseconds

Slots == {1, 2}           \* places for a request being handled
Keys  == {"ip1", "ip2"}   \* client keys (req.ip behind one trusted proxy hop)
PreloadedKeys == {"ip1"}  \* keys that may already have used up a window

----------------------------------------------------------------------------
(* State *)

VARIABLES
  now,        \* the clock, in milliseconds
  windows,    \* the limiters' stores: <<limiter, key>> -> [count, start]
  reqs,       \* slot -> the request being handled there
  arrivals,   \* requests received so far
  history     \* <<limiter, key>> -> instant -> requests counted and let through

vars == <<now, windows, reqs, arrivals, history>>

----------------------------------------------------------------------------
(* JavaScript values.  Every value is a record with a `kind`, so that      *)
(* values of different kinds can be compared.                              *)

Undefined == [kind |-> "undefined"]
Null      == [kind |-> "null"]
Str(s)    == [kind |-> "string", text |-> s]
Num(n)    == [kind |-> "number", num |-> n]
Bool(b)   == [kind |-> "boolean", bool |-> b]
Arr(a)    == [kind |-> "array", items |-> a]
Obj(f)    == [kind |-> "object", fields |-> f]

\* JavaScript truthiness, as used by `||`, `!` and `if`.
truthy(v) ==
  /\ v.kind \notin {"undefined", "null"}
  /\ v.kind = "string" => v.text # ""
  /\ v.kind = "number" => v.num # 0
  /\ v.kind = "boolean" => v.bool

\* a || b
or(a, b) == IF truthy(a) THEN a ELSE b

\* v[f] throws a TypeError when v is null or undefined.
throwsOnGet(v) == v.kind \in {"undefined", "null"}

\* v[f] for a v on which it does not throw.
get(v, f) ==
  IF v.kind = "object" /\ f \in DOMAIN v.fields THEN v.fields[f]
  ELSE IF f = "length" /\ v.kind = "array" THEN Num(Len(v.items))
  ELSE IF f = "length" /\ v.kind = "string" THEN Num(Len(v.text))
  ELSE Undefined

\* v[0]
first(v) ==
  IF v.kind = "array" /\ Len(v.items) > 0 THEN v.items[1] ELSE Undefined

\* `${v}` for the kinds of value the handlers interpolate.
toString(v) ==
  CASE v.kind = "string" -> v.text
    [] v.kind = "number" -> ToString(v.num)
    [] v.kind = "null"   -> "null"
    [] OTHER             -> "undefined"

\* res.json(obj) for an object literal: JSON.stringify leaves out the
\* properties whose value is undefined.
json(f) == Obj([k \in {x \in DOMAIN f : f[x] # Undefined} |-> f[k]])

----------------------------------------------------------------------------
(* The upstream provider, as seen through axios *)

MAILTM_API == "https://api.mail.tm"

\* axios resolves with the response of a 2xx answer.
Resolved(data) ==
  [resolved |-> TRUE, hasResponse |-> TRUE, status |-> 200, data |-> data,
   message |-> Undefined]

\* axios rejects with err.response set when the upstream answers 4xx or 5xx.
HttpError(status, data) ==
  [resolved |-> FALSE, hasResponse |-> TRUE, status |-> status, data |-> data,
   message |-> Str("Request failed with status code " \o ToString(status))]

\* axios rejects without err.response when no answer arrived.
NetworkError ==
  [resolved |-> FALSE, hasResponse |-> FALSE, status |-> 0, data |-> Undefined,
   message |-> Str("Network Error")]

\* A TypeError thrown by the handler itself while reading a property.
TypeError(what) ==
  [resolved |-> FALSE, hasResponse |-> FALSE, status |-> 0, data |-> Undefined,
   message |-> Str("Cannot read properties of " \o what)]

ErrorStatuses == {404, 503}
UpstreamErrorBody == Obj([message |-> Str("upstream says no")])
ErrorBodies == {UpstreamErrorBody, Str("")}

Failures ==
  {HttpError(st, d) : st \in ErrorStatuses, d \in ErrorBodies} \cup {NetworkError}

DomainEntry == Obj([domain |-> Str("mail.tm")])
DomainsListed == Obj("hydra:member" :> Arr(<<DomainEntry>>))
DomainsBodies ==
  { DomainsListed,                                 \* one domain listed
    Obj("hydra:member" :> Arr(<<>>)),              \* an empty list
    Obj(<<>>),                                \* no list at all
    Null }                                    \* a body that is not an object
AccountCreated == Obj([id |-> Str("acc1")])
AccountBodies == { AccountCreated }
TokenIssued == Obj([token |-> Str("jwt1")])
TokenBodies ==
  { TokenIssued,                              \* a token was issued
    Obj(<<>>),                                \* an object without a token
    Null }
MessagesListed == Obj("hydra:member" :> Arr(<<>>))
MessagesBodies == { MessagesListed, Null }
DeleteBodies == { Str("") }

\* No upstream call has come back yet.
NoReply ==
  [resolved |-> TRUE, hasResponse |-> FALSE, status |-> 0, data |-> Undefined,
   message |-> Undefined]

\* What one upstream call can come back with.
Outcomes(bodies) == {Resolved(d) : d \in bodies} \cup Failures

----------------------------------------------------------------------------
(* Rate limiting *)

\* accountLimiter with the message of the other limiter pasted into it.
accountLimiterPasted ==
  [windowMs |-> 60 * 1000, max |-> 100, status |-> 429,
   body |-> json([error |-> Str("Too many requests, please wait a minute.")])]

accountLimiter ==
  [windowMs |-> 60 * 1000, max |-> 100, status |-> 429,
   body |-> json([error |-> Str("Too many account creations, please wait a minute.")])]

\* generalLimiter with a window of one hour instead of one minute.
generalLimiterHour ==
  [windowMs |-> 60 * 60 * 1000, max |-> 200, status |-> 429,
   body |-> json([error |-> Str("Too many requests, please wait a minute.")])]

generalLimiter ==
  [windowMs |-> 60 * 1000, max |-> 200, status |-> 429,
   body |-> json([error |-> Str("Too many requests, please wait a minute.")])]

Limiters == {"accountLimiter", "generalLimiter"}

limiter(name) ==
  IF name = "accountLimiter" THEN accountLimiter ELSE generalLimiter

Routes ==
  {"GET /api/health", "GET /api/domains", "POST /api/account",
   "GET /api/messages", "GET /api/messages/:id", "DELETE /api/messages/:id"}

\* Every limited route registered with generalLimiter.
routeLimiterShared(route) ==
  IF route = "GET /api/health" THEN "none" ELSE "generalLimiter"

\* The limiter each route is registered with.
routeLimiter(route) ==
  CASE route = "POST /api/account" -> "accountLimiter"
    [] route = "GET /api/health"   -> "none"
    [] OTHER                       -> "generalLimiter"

LimitedRoutes == {r \in Routes : routeLimiter(r) # "none"}
MessageRoutes ==
  {"GET /api/messages", "GET /api/messages/:id", "DELETE /api/messages/:id"}

Buckets == Limiters \X Keys

\* A store that reads the count, waits, and writes it back: a hit that races
\* with a request of the same key and limiter still being handled is lost.
incrementLossy(w, name, key, t) ==
  LET b     == <<name, key>>
      racing == \E s \in Slots : /\ reqs[s].pc \notin {"idle", "done"}
                                 /\ reqs[s].key = key
                                 /\ routeLimiter(reqs[s].route) = name
                                 /\ reqs[s].totalHits > 0
      fresh == b \notin DOMAIN w \/ t - w[b].start >= 60 * 1000
      new   == IF fresh THEN [count |-> 1, start |-> t]
               ELSE IF racing THEN w[b]
               ELSE [count |-> w[b].count + 1, start |-> w[b].start]
  IN  [x \in DOMAIN w \cup {b} |-> IF x = b THEN new ELSE w[x]]

\* The store of a limiter counts one hit for a key at time t: a key without
\* a window, or whose window is over, starts a new window at t.
increment(w, name, key, t) ==
  LET b     == <<name, key>>
      fresh == b \notin DOMAIN w \/ t - w[b].start >= limiter(name).windowMs
      new   == IF fresh THEN [count |-> 1, start |-> t]
                        ELSE [count |-> w[b].count + 1, start |-> w[b].start]
  IN  [x \in DOMAIN w \cup {b} |-> IF x = b THEN new ELSE w[x]]

\* The limiter lets a request through while its count is within max.
overLimit(name, totalHits) == totalHits > limiter(name).max

----------------------------------------------------------------------------
(* Responses *)

Response(status, body) == [status |-> status, body |-> body]

\* A catch block that answers 500 whatever the upstream's status was.
catchAlways500(err, label) ==
  Response(500,
           json([error   |-> Str(label),
                 details |-> or(IF err.hasResponse THEN err.data ELSE Undefined,
                                err.message)]))

\* The catch block shared by the five proxied handlers.
catch(err, label) ==
  Response(IF err.hasResponse /\ err.status # 0 THEN err.status ELSE 500,
           json([error   |-> Str(label),
                 details |-> or(IF err.hasResponse THEN err.data ELSE Undefined,
                                err.message)]))

\* The error-handling middleware registered after the routes.
errorHandler(err) ==
  IF err.statusCode = 429
  THEN Response(429, IF err.message.kind = "object" THEN err.message
                     ELSE json([error |-> or(err.message, Str("Too many requests"))]))
  ELSE Response(500, json([error |-> Str("Internal Server Error")]))

\* The error express.json() passes on when a body is not valid JSON.
BodyParseError == [statusCode |-> 400, message |-> Str("Unexpected end of JSON input")]

----------------------------------------------------------------------------
(* Requests *)

Instants == {i * TickMs : i \in 0 .. MaxTicks}

Idle ==
  [pc |-> "idle", route |-> "", key |-> "", auth |-> Undefined,
   localPart |-> Undefined, totalHits |-> 0, address |-> Undefined,
   password |-> Undefined, calls |-> <<>>, reply |-> NoReply, responses |-> <<>>]

NewRequest(route, key, auth, localPart) ==
  [Idle EXCEPT !.pc = "handler", !.route = route, !.key = key, !.auth = auth,
               !.localPart = localPart]

\* res.status(..).json(..): the response is sent and the handler is over.
send(r, resp) == [r EXCEPT !.responses = Append(@, resp), !.pc = "done"]

\* An axios call is issued and the handler waits for it at `pc`.
call(r, method, url, data, auth, pc) ==
  [r EXCEPT !.calls = Append(@, [method |-> method, url |-> url, data |-> data,
                                 auth |-> auth]),
            !.pc = pc]

\* The awaited axios call has settled with outcome o.
settle(r, o) == [r EXCEPT !.reply = o]

\* Math.random().toString(36).slice(2, 2 + len): one sample per length.
randString(len) ==
  IF len = 8 THEN {Str("k3x9q2ab")} ELSE {Str("p0x1y2z3w4v")}

Auths == {Undefined, Str(""), Str("Bearer jwt1")}
LocalParts == {Undefined, Str("alice")}

\* Before the first request of the behaviour, a preloaded key may have had
\* the requests of a window counted and answered at time 0, up to the limit
\* or one short of it.
Preloads ==
  UNION { {[b \in B |-> [count |-> limiter(b[1]).max - short[b], start |-> 0]] :
             short \in [B -> {0, 1}]} :
          B \in SUBSET (Limiters \X PreloadedKeys) }

Init ==
  /\ now = 0
  /\ windows \in Preloads
  /\ reqs = [s \in Slots |-> Idle]
  /\ arrivals = 0
  /\ history = [b \in Buckets |-> [t \in Instants |->
                  IF b \in DOMAIN windows /\ t = 0
                  THEN [reached |-> windows[b].count, admitted |-> windows[b].count]
                  ELSE [reached |-> 0, admitted |-> 0]]]

\* Both windows of the preloaded key are one request short of their limit.
InitLoaded ==
  /\ Init
  /\ \A b \in Limiters \X PreloadedKeys :
       b \in DOMAIN windows /\ windows[b].count = limiter(b[1]).max - 1

----------------------------------------------------------------------------
(* Arrival of a request *)

\* express.json() fails on the body: no route runs, the error handler answers.
JsonParseError(s, route, key) ==
  /\ reqs[s].pc = "idle"
  /\ arrivals < MaxArrivals
  /\ reqs' = [reqs EXCEPT ![s] =
                send(NewRequest(route, key, Undefined, Undefined),
                     errorHandler(BodyParseError))]
  /\ arrivals' = arrivals + 1
  /\ UNCHANGED <<now, windows, history>>

\* GET /api/health
Health(s, key) ==
  /\ reqs[s].pc = "idle"
  /\ arrivals < MaxArrivals
  /\ reqs' = [reqs EXCEPT ![s] =
                send(NewRequest("GET /api/health", key, Undefined, Undefined),
                     Response(200, json([status    |-> Str("ok"),
                                         uptime    |-> Num(now \div 1000),
                                         timestamp |-> Num(now)])))]
  /\ arrivals' = arrivals + 1
  /\ UNCHANGED <<now, windows, history>>

\* The limiter of a limited route: counts the request, then either answers
\* 429 through its handler or passes the request on to the route handler.
Limit(s, route, key, auth, localPart) ==
  /\ reqs[s].pc = "idle"
  /\ arrivals < MaxArrivals
  /\ route \in LimitedRoutes
  /\ LET name      == routeLimiter(route)
         w         == increment(windows, name, key, now)
         totalHits == w[<<name, key>>].count
         rejected  == overLimit(name, totalHits)
         r         == [NewRequest(route, key, auth, localPart)
                         EXCEPT !.totalHits = totalHits]
     IN  /\ windows' = w
         /\ reqs' = [reqs EXCEPT ![s] =
                       IF rejected
                       THEN send(r, Response(limiter(name).status, limiter(name).body))
                       ELSE r]
         /\ history' = [history EXCEPT ![<<name, key>>][now] =
                          [reached  |-> @.reached + 1,
                           admitted |-> @.admitted + (IF rejected THEN 0 ELSE 1)]]
  /\ arrivals' = arrivals + 1
  /\ UNCHANGED now

----------------------------------------------------------------------------
(* GET /api/domains *)

DomainsHandler(s) ==
  /\ reqs[s].pc = "handler"
  /\ reqs[s].route = "GET /api/domains"
  /\ reqs' = [reqs EXCEPT ![s] =
                call(@, "GET", MAILTM_API \o "/domains", Undefined, Undefined, "await60")]
  /\ UNCHANGED <<now, windows, arrivals, history>>

DomainsReply(s, o) ==
  /\ reqs[s].pc = "await60"
  /\ reqs' = [reqs EXCEPT ![s] =
                IF o.resolved THEN send(settle(@, o), Response(200, o.data))
                ELSE send(settle(@, o), catch(o, "Failed to fetch domains"))]
  /\ UNCHANGED <<now, windows, arrivals, history>>

----------------------------------------------------------------------------
(* POST /api/account *)

AccountHandler(s) ==
  /\ reqs[s].pc = "handler"
  /\ reqs[s].route = "POST /api/account"
  /\ reqs' = [reqs EXCEPT ![s] =
                call(@, "GET", MAILTM_API \o "/domains", Undefined, Undefined, "await77")]
  /\ UNCHANGED <<now, windows, arrivals, history>>

\* Lines 78-89 without the `return` of line 80: the 502 is sent and the
\* handler goes on to read domainList[0].domain.
accountAfterDomainsNoReturn(r, domains, rand8, rand16) ==
  IF throwsOnGet(domains)
  THEN send(r, catch(TypeError("null (reading 'hydra:member')"), "Account creation failed"))
  ELSE
    LET domainList == or(get(domains, "hydra:member"), Arr(<<>>))
        sent       == IF ~truthy(get(domainList, "length"))
                      THEN send(r, Response(502, json([error |-> Str("No domains available")])))
                      ELSE r
    IN
    IF throwsOnGet(first(domainList))
    THEN send(sent, catch(TypeError("undefined (reading 'domain')"), "Account creation failed"))
    ELSE
      LET domain   == get(first(domainList), "domain")
          address  == Str(toString(or(r.localPart, rand8)) \o "@" \o toString(domain))
          password == rand16
      IN  call([sent EXCEPT !.address = address, !.password = password],
               "POST", MAILTM_API \o "/accounts",
               json([address |-> address, password |-> password]), Undefined, "await89")

\* Lines 78-89, run when the domains call has resolved with body `domains`.
accountAfterDomains(r, domains, rand8, rand16) ==
  IF throwsOnGet(domains)
  THEN send(r, catch(TypeError("null (reading 'hydra:member')"), "Account creation failed"))
  ELSE
    LET domainList == or(get(domains, "hydra:member"), Arr(<<>>)) IN
    IF ~truthy(get(domainList, "length"))
    THEN send(r, Response(502, json([error |-> Str("No domains available")])))
    ELSE IF throwsOnGet(first(domainList))
    THEN send(r, catch(TypeError("undefined (reading 'domain')"), "Account creation failed"))
    ELSE
      LET domain   == get(first(domainList), "domain")
          address  == Str(toString(or(r.localPart, rand8)) \o "@" \o toString(domain))
          password == rand16
      IN  call([r EXCEPT !.address = address, !.password = password],
               "POST", MAILTM_API \o "/accounts",
               json([address |-> address, password |-> password]), Undefined, "await89")

AccountDomainsReply(s, o, rand8, rand16) ==
  /\ reqs[s].pc = "await77"
  /\ reqs' = [reqs EXCEPT ![s] =
                IF o.resolved THEN accountAfterDomains(settle(@, o), o.data, rand8, rand16)
                ELSE send(settle(@, o), catch(o, "Account creation failed"))]
  /\ UNCHANGED <<now, windows, arrivals, history>>

\* Line 89 with its rejection swallowed: the token is asked for even when
\* the registration failed.
AccountCreateReplySwallowed(s, o) ==
  /\ reqs[s].pc = "await89"
  /\ reqs' = [reqs EXCEPT ![s] =
                call(settle(@, o), "POST", MAILTM_API \o "/token",
                     json([address |-> reqs[s].address,
                           password |-> reqs[s].password]),
                     Undefined, "await92")]
  /\ UNCHANGED <<now, windows, arrivals, history>>

AccountCreateReply(s, o) ==
  /\ reqs[s].pc = "await89"
  /\ reqs' = [reqs EXCEPT ![s] =
                IF o.resolved
                THEN call(settle(@, o), "POST", MAILTM_API \o "/token",
                          json([address |-> reqs[s].address,
                                password |-> reqs[s].password]),
                          Undefined, "await92")
                ELSE send(settle(@, o), catch(o, "Account creation failed"))]
  /\ UNCHANGED <<now, windows, arrivals, history>>

\* Line 94, run when the token call has resolved with body `tokenResp`.
accountAfterToken(r, tokenResp) ==
  IF throwsOnGet(tokenResp)
  THEN send(r, catch(TypeError("null (reading 'token')"), "Account creation failed"))
  ELSE send(r, Response(200, json([address |-> r.address,
                                   token   |-> get(tokenResp, "token")])))

AccountTokenReply(s, o) ==
  /\ reqs[s].pc = "await92"
  /\ reqs' = [reqs EXCEPT ![s] =
                IF o.resolved THEN accountAfterToken(settle(@, o), o.data)
                ELSE send(settle(@, o), catch(o, "Account creation failed"))]
  /\ UNCHANGED <<now, windows, arrivals, history>>

----------------------------------------------------------------------------
(* The three /api/messages routes *)

MissingAuthorization ==
  Response(401, json([error |-> Str("Missing Authorization header")]))

\* A messages handler that forwards whatever header it got.
messagesStartUnchecked(r, method, url, pc) ==
  call(r, method, url, Undefined, r.auth, pc)

\* A messages handler up to its await: 401 without an Authorization header,
\* else the upstream call with the caller's header.
messagesStart(r, method, url, pc) ==
  LET auth == r.auth IN
  IF ~truthy(auth) THEN send(r, MissingAuthorization)
  ELSE call(r, method, url, Undefined, auth, pc)

MessagesHandler(s) ==
  /\ reqs[s].pc = "handler"
  /\ reqs[s].route = "GET /api/messages"
  /\ reqs' = [reqs EXCEPT ![s] =
                messagesStart(@, "GET", MAILTM_API \o "/messages", "await111")]
  /\ UNCHANGED <<now, windows, arrivals, history>>

MessagesReply(s, o) ==
  /\ reqs[s].pc = "await111"
  /\ reqs' = [reqs EXCEPT ![s] =
                IF o.resolved THEN send(settle(@, o), Response(200, o.data))
                ELSE send(settle(@, o), catch(o, "Failed to fetch messages"))]
  /\ UNCHANGED <<now, windows, arrivals, history>>

MessageHandler(s) ==
  /\ reqs[s].pc = "handler"
  /\ reqs[s].route = "GET /api/messages/:id"
  /\ reqs' = [reqs EXCEPT ![s] =
                messagesStart(@, "GET", MAILTM_API \o "/messages/m1", "await131")]
  /\ UNCHANGED <<now, windows, arrivals, history>>

MessageReply(s, o) ==
  /\ reqs[s].pc = "await131"
  /\ reqs' = [reqs EXCEPT ![s] =
                IF o.resolved THEN send(settle(@, o), Response(200, o.data))
                ELSE send(settle(@, o), catch(o, "Failed to fetch message"))]
  /\ UNCHANGED <<now, windows, arrivals, history>>

DeleteHandler(s) ==
  /\ reqs[s].pc = "handler"
  /\ reqs[s].route = "DELETE /api/messages/:id"
  /\ reqs' = [reqs EXCEPT ![s] =
                messagesStart(@, "DELETE", MAILTM_API \o "/messages/m1", "await151")]
  /\ UNCHANGED <<now, windows, arrivals, history>>

DeleteReply(s, o) ==
  /\ reqs[s].pc = "await151"
  /\ reqs' = [reqs EXCEPT ![s] =
                IF o.resolved THEN send(settle(@, o), Response(200, json([ok |-> Bool(TRUE)])))
                ELSE send(settle(@, o), catch(o, "Failed to delete message"))]
  /\ UNCHANGED <<now, windows, arrivals, history>>

----------------------------------------------------------------------------
(* Environment *)

\* The client has read the response; the slot is free again.
Release(s) ==
  /\ reqs[s].pc = "done"
  /\ reqs' = [reqs EXCEPT ![s] = Idle]
  /\ UNCHANGED <<now, windows, arrivals, history>>

Tick ==
  /\ now < MaxTicks * TickMs
  /\ now' = now + TickMs
  /\ UNCHANGED <<windows, reqs, arrivals, history>>

\* One request at a time: handlers share nothing but the limiters' stores,
\* so what a handler does with its own request is explored with every input
\* and every upstream outcome, the other slot staying free.
Next ==
  \/ \E route \in Routes, key \in Keys : JsonParseError(1, route, key)
  \/ \E key \in Keys : Health(1, key)
  \/ \E route \in LimitedRoutes, key \in Keys :
       \E auth \in (IF route \in MessageRoutes THEN Auths ELSE {Undefined}),
          localPart \in (IF route = "POST /api/account" THEN LocalParts ELSE {Undefined}) :
         Limit(1, route, key, auth, localPart)
  \/ DomainsHandler(1)
  \/ \E o \in Outcomes(DomainsBodies) : DomainsReply(1, o)
  \/ AccountHandler(1)
  \/ \E o \in Outcomes(DomainsBodies), rand8 \in randString(8), rand16 \in randString(16) :
       AccountDomainsReply(1, o, rand8, rand16)
  \/ \E o \in Outcomes(AccountBodies) : AccountCreateReply(1, o)
  \/ \E o \in Outcomes(TokenBodies) : AccountTokenReply(1, o)
  \/ MessagesHandler(1)
  \/ \E o \in Outcomes(MessagesBodies) : MessagesReply(1, o)
  \/ MessageHandler(1)
  \/ \E o \in Outcomes(MessagesBodies) : MessageReply(1, o)
  \/ DeleteHandler(1)
  \/ \E o \in Outcomes(DeleteBodies) : DeleteReply(1, o)
  \/ Release(1)
  \/ Tick

Spec == Init /\ [][Next]_vars

\* Requests handled concurrently: one route of each limiter, any slot, any
\* key, the upstream either answering well or not at all.
ConcurrentRoutes == {"POST /api/account", "GET /api/messages"}
Answers(body) == {Resolved(body), NetworkError}

NextConcurrent ==
  \/ \E s \in Slots, route \in ConcurrentRoutes, key \in Keys :
       Limit(s, route, key, IF route \in MessageRoutes THEN Str("Bearer jwt1") ELSE Undefined,
             Undefined)
  \/ \E s \in Slots : AccountHandler(s)
  \/ \E s \in Slots, o \in Answers(DomainsListed),
        rand8 \in randString(8), rand16 \in randString(16) :
       AccountDomainsReply(s, o, rand8, rand16)
  \/ \E s \in Slots, o \in Answers(AccountCreated) : AccountCreateReply(s, o)
  \/ \E s \in Slots, o \in Answers(TokenIssued) : AccountTokenReply(s, o)
  \/ \E s \in Slots : MessagesHandler(s)
  \/ \E s \in Slots, o \in Answers(MessagesListed) : MessagesReply(s, o)
  \/ \E s \in Slots : Release(s)
  \/ Tick

SpecConcurrent == InitLoaded /\ [][NextConcurrent]_vars

----------------------------------------------------------------------------
(* Vocabulary of the properties: the route classes, limits, window and     *)
(* error bodies as the specification states them.                          *)

RouteClass(route) ==
  IF route = "POST /api/account" THEN "account-creation" ELSE "general"

ClassLimit(class) == IF class = "account-creation" THEN 100 ELSE 200

ClassBody(class) ==
  IF class = "account-creation"
  THEN Obj([error |-> Str("Too many account creations, please wait a minute.")])
  ELSE Obj([error |-> Str("Too many requests, please wait a minute.")])

ClassStore(class) ==
  IF class = "account-creation" THEN "accountLimiter" ELSE "generalLimiter"

StoreClass(name) ==
  IF name = "accountLimiter" THEN "account-creation" ELSE "general"

WindowDurationMs == 60 * 1000

TooMany(class) == Response(429, ClassBody(class))

\* The request in slot s was dispatched to a rate-limited route.
Limited(s) ==
  /\ reqs[s].pc # "idle"
  /\ reqs[s].route \in LimitedRoutes
  /\ reqs[s].totalHits > 0

\* The step receives a request for a rate-limited route in slot s.
Arrives(s) ==
  /\ reqs[s].pc = "idle"
  /\ reqs'[s].pc # "idle"
  /\ reqs'[s].route \in LimitedRoutes
  /\ reqs'[s].totalHits > 0

RECURSIVE Sum(_, _)
Sum(f, S) ==
  IF S = {} THEN 0
  ELSE LET x == CHOOSE y \in S : TRUE IN f[x] + Sum(f, S \ {x})

\* Requests of bucket b counted, and let through, from instant `from` on and
\* less than one window later.
InWindow(from) == {t \in Instants : from <= t /\ t < from + WindowDurationMs}
Reached(b, from)  == Sum([t \in Instants |-> history[b][t].reached], InWindow(from))
Admitted(b, from) == Sum([t \in Instants |-> history[b][t].admitted], InWindow(from))

----------------------------------------------------------------------------
(* Rate limiting: C1, C2, C8, C10 *)

\* C1: a request that is at most the limit-th one counted for its key and
\* route class in the window is passed to its handler, and a later one in the
\* window is answered 429 with the fixed body of its class and nothing else.
C1_LimitThenReject ==
  \A s \in Slots : Limited(s) =>
    LET r     == reqs[s]
        class == RouteClass(r.route)
    IN  IF r.totalHits > ClassLimit(class)
        THEN r.pc = "done" /\ r.responses = <<TooMany(class)>> /\ r.calls = <<>>
        ELSE \A i \in 1 .. Len(r.responses) : r.responses[i] # TooMany(class)

\* The (limit+1)-th request of a window has been answered 429.
C1_Witness ==
  \E s \in Slots :
    /\ Limited(s)
    /\ reqs[s].totalHits = ClassLimit(RouteClass(reqs[s].route)) + 1
    /\ reqs[s].responses = <<TooMany(RouteClass(reqs[s].route))>>

\* C2: the first request of a key that arrives one window duration or more
\* after the start of the key's window is let through, restarts the window
\* at its own arrival time and is counted as the first of the new window.
C2_ResetAfterWindow ==
  [][\A s \in Slots :
       Arrives(s) =>
         LET r == reqs'[s]
             b == <<ClassStore(RouteClass(r.route)), r.key>>
         IN  (b \in DOMAIN windows /\ now - windows[b].start >= WindowDurationMs)
             => /\ windows'[b] = [count |-> 1, start |-> now]
                /\ r.totalHits = 1
                /\ r.pc = "handler"
                /\ r.responses = <<>>]_vars

\* A key that was answered 429 in the window that began at 0 is being
\* handled as the first request of a window that began one window later.
C2_Witness ==
  \E s \in Slots :
    /\ Limited(s)
    /\ reqs[s].totalHits = 1
    /\ reqs[s].pc = "handler"
    /\ LET b == <<ClassStore(RouteClass(reqs[s].route)), reqs[s].key>>
       IN  /\ windows[b].start >= WindowDurationMs
           /\ history[b][0].reached > history[b][0].admitted

\* C8: a step changes the counter of a (route class, key) only when it
\* receives a request of that key for a route of that class, and a request is
\* answered 429 only when the counter of its own class and key is over the
\* limit.
C8_IndependentCounters ==
  [][/\ \A b \in Buckets :
          (\/ (b \in DOMAIN windows) # (b \in DOMAIN windows')
           \/ (b \in DOMAIN windows /\ windows'[b] # windows[b]))
          => \E s \in Slots : /\ Arrives(s)
                              /\ ClassStore(RouteClass(reqs'[s].route)) = b[1]
                              /\ reqs'[s].key = b[2]
     /\ \A s \in Slots :
          (Arrives(s) /\ reqs'[s].responses # <<>>)
          => LET b == <<ClassStore(RouteClass(reqs'[s].route)), reqs'[s].key>>
             IN  /\ b \in DOMAIN windows'
                 /\ windows'[b].count > ClassLimit(RouteClass(reqs'[s].route))]_vars

\* A key whose account-creation window is used up is let through on a general
\* route, while the other key has no account-creation window at all.
C8_Witness ==
  \E s \in Slots, k \in Keys :
    /\ <<"accountLimiter", k>> \in DOMAIN windows
    /\ windows[<<"accountLimiter", k>>].count > ClassLimit("account-creation")
    /\ Limited(s)
    /\ reqs[s].key = k
    /\ RouteClass(reqs[s].route) = "general"
    /\ reqs[s].pc = "handler"
    /\ reqs[s].totalHits = 1
    /\ \E k2 \in Keys \ {k} : <<"accountLimiter", k2>> \notin DOMAIN windows

\* C10: with requests of the same key being handled at the same time, the
\* counter of every (route class, key) equals the number of requests counted
\* for it since its window began, and the number let through in the window
\* is within the limit of the class.
C10_NoLostIncrement ==
  \A b \in DOMAIN windows :
    /\ windows[b].count = Reached(b, windows[b].start)
    /\ Admitted(b, windows[b].start) <= ClassLimit(StoreClass(b[1]))

\* Two requests of one key and one route class are waiting for the upstream
\* at the same time, the second counted one above the first.
C10_Witness ==
  \E s1, s2 \in Slots :
    /\ s1 # s2
    /\ reqs[s1].key = reqs[s2].key
    /\ reqs[s1].route = reqs[s2].route
    /\ reqs[s1].pc \in {"await77", "await89", "await92", "await111"}
    /\ reqs[s2].pc \in {"await77", "await89", "await92", "await111"}
    /\ reqs[s2].totalHits = reqs[s1].totalHits + 1

----------------------------------------------------------------------------
(* The handlers: C3, C4, C5, C6, C7, C9 *)

\* The only response of a request that has been answered.
Answer(s) == reqs[s].responses[1]

\* The request in slot s was dispatched to a messages route without an
\* Authorization header (the handlers never look at cookies).
NoCredential(s) ==
  /\ Limited(s)
  /\ reqs[s].route \in MessageRoutes
  /\ reqs[s].auth = Undefined

UpstreamFailed(s) ==
  /\ reqs[s].pc = "done"
  /\ reqs[s].calls # <<>>
  /\ ~reqs[s].reply.resolved

\* C4 as stated: the response to a failed upstream call has the upstream's
\* status and the upstream's error body under `details`, and status 500 when
\* the upstream gave no response.
C4_ForwardVerbatim ==
  \A s \in Slots : UpstreamFailed(s) =>
    IF reqs[s].reply.hasResponse
    THEN /\ Answer(s).status = reqs[s].reply.status
         /\ "details" \in DOMAIN Answer(s).body.fields
         /\ Answer(s).body.fields.details = reqs[s].reply.data
    ELSE Answer(s).status = 500

\* C4 as amended: the status is the upstream's; `details` is the upstream's
\* error body when that body is not empty, and the message of the axios
\* error when it is; the status is 500 when the upstream gave no response.
C4_ForwardOrMessage ==
  \A s \in Slots : UpstreamFailed(s) =>
    IF reqs[s].reply.hasResponse
    THEN /\ Answer(s).status = reqs[s].reply.status
         /\ "details" \in DOMAIN Answer(s).body.fields
         /\ Answer(s).body.fields.details =
              IF reqs[s].reply.data = Str("")
              THEN Str("Request failed with status code "
                         \o ToString(reqs[s].reply.status))
              ELSE reqs[s].reply.data
    ELSE /\ Answer(s).status = 500
         /\ Answer(s).body.fields.details = Str("Network Error")

\* An upstream 503 with a body has been forwarded as a 503.
C4_Witness ==
  \E s \in Slots :
    /\ UpstreamFailed(s)
    /\ reqs[s].reply = HttpError(503, UpstreamErrorBody)
    /\ Answer(s).status = 503

RECURSIVE Contains(_, _)
\* The value x occurs in v.
Contains(v, x) ==
  \/ v = x
  \/ v.kind = "object" /\ \E f \in DOMAIN v.fields : Contains(v.fields[f], x)
  \/ v.kind = "array" /\ \E i \in 1 .. Len(v.items) : Contains(v.items[i], x)

\* C5: a 200 from POST /api/account has exactly the fields address and
\* token, the address being the one registered upstream and the token the
\* one in the upstream's token response; no response of the route contains
\* the generated password or a field named password.
C5_AddressAndTokenOnly ==
  \A s \in Slots :
    (reqs[s].route = "POST /api/account" /\ reqs[s].pc = "done") =>
      /\ (Limited(s) /\ Answer(s).status = 200) =>
           /\ DOMAIN Answer(s).body.fields = {"address", "token"}
           /\ Answer(s).body.fields.address = reqs[s].calls[2].data.fields.address
           /\ Answer(s).body.fields.token = reqs[s].reply.data.fields.token
      /\ \A i \in 1 .. Len(reqs[s].responses) :
           /\ reqs[s].password # Undefined =>
                ~Contains(reqs[s].responses[i].body, reqs[s].password)
           /\ "password" \notin DOMAIN reqs[s].responses[i].body.fields

\* The upstream's domains body lists no domain.
ListsNoDomain(body) ==
  ~ /\ body.kind = "object"
    /\ "hydra:member" \in DOMAIN body.fields
    /\ body.fields["hydra:member"].kind = "array"
    /\ Len(body.fields["hydra:member"].items) > 0

\* C6: when the domains call of POST /api/account succeeds and lists no
\* domain, the step that receives it answers 502 with an error body and
\* issues no further upstream call.
C6_NoDomains502 ==
  [][\A s \in Slots :
       (/\ reqs[s].pc = "await77"
        /\ reqs'[s].pc # "await77"
        /\ reqs'[s].reply.resolved
        /\ ListsNoDomain(reqs'[s].reply.data))
       => /\ reqs'[s].pc = "done"
          /\ reqs'[s].calls = reqs[s].calls
          /\ reqs'[s].responses = <<Response(502, Obj([error |-> Str("No domains available")]))>>]_vars

RECURSIVE IsJson(_)
\* v is a value JSON can express.
IsJson(v) ==
  \/ v.kind \in {"null", "string", "number", "boolean"}
  \/ v.kind = "array" /\ \A i \in 1 .. Len(v.items) : IsJson(v.items[i])
  \/ v.kind = "object" /\ \A f \in DOMAIN v.fields : IsJson(v.fields[f])

\* A request is being handled in slot s and has not been answered.
Pending(s) == reqs[s].pc \notin {"idle", "done"}

\* No request has two responses, a request is over exactly when it has one,
\* and a response has an HTTP status and a JSON body.
OneResponse ==
  \A s \in Slots :
    /\ Len(reqs[s].responses) <= 1
    /\ reqs[s].pc = "done" <=> Len(reqs[s].responses) = 1
    /\ Pending(s) => reqs[s].pc \in {"handler", "await60", "await77", "await89",
                                     "await92", "await111", "await131", "await151"}
    /\ \A i \in 1 .. Len(reqs[s].responses) :
         /\ reqs[s].responses[i].status \in 100 .. 599
         /\ IsJson(reqs[s].responses[i].body)

\* C7: every request gets exactly one response with a status and a JSON
\* body, whatever the upstream answers: never two, and, the event loop
\* running and every upstream call settling, always one.
C7_ExactlyOneResponse ==
  /\ []OneResponse
  /\ \A s \in Slots : Pending(s) ~> (reqs[s].pc = "done")

\* A request whose upstream call succeeded with a body that is not an object
\* has been answered, once.
C7_Witness ==
  \E s \in Slots :
    /\ reqs[s].pc = "done"
    /\ reqs[s].route = "POST /api/account"
    /\ reqs[s].reply.resolved
    /\ reqs[s].reply.data = Null
    /\ Len(reqs[s].responses) = 1
    /\ Answer(s).status = 500

\* The upstream calls POST /api/account may have made so far, in order.
AccountCalls(r) ==
  LET credentials == json([address |-> r.address, password |-> r.password]) IN
  << [method |-> "GET", url |-> "https://api.mail.tm/domains", data |-> Undefined,
      auth |-> Undefined],
     [method |-> "POST", url |-> "https://api.mail.tm/accounts", data |-> credentials,
      auth |-> Undefined],
     [method |-> "POST", url |-> "https://api.mail.tm/token", data |-> credentials,
      auth |-> Undefined] >>

\* C9: the upstream calls of one POST /api/account are a prefix of domains,
\* registration, token, the last two with the same address and password; the
\* registration is issued by the step that receives a domains list that is
\* not empty, the token call by the step that receives the successful
\* registration; the step that receives a failure answers with an error and
\* issues no call, and an answered request issues no call.
C9_OrderedNoRetry ==
  [][\A s \in Slots :
       LET r == reqs[s]
           q == reqs'[s]
       IN  (q.route = "POST /api/account" /\ q.pc # "idle") =>
             /\ Len(q.calls) <= 3
             /\ q.calls = SubSeq(AccountCalls(q), 1, Len(q.calls))
             /\ (Len(q.calls) = 2 /\ Len(r.calls) # 2) =>
                  /\ r.pc = "await77"
                  /\ q.reply.resolved
                  /\ ~ListsNoDomain(q.reply.data)
             /\ (Len(q.calls) = 3 /\ Len(r.calls) # 3) =>
                  /\ r.pc = "await89"
                  /\ Len(r.calls) = 2
                  /\ q.reply.resolved
             /\ (Pending(s) /\ q.reply # r.reply /\ ~q.reply.resolved) =>
                  /\ q.pc = "done"
                  /\ q.calls = r.calls
                  /\ Len(q.responses) = 1
                  /\ q.responses[1].status >= 400
             /\ r.pc = "done" => q.calls = r.calls]_vars

\* The registration succeeded, the token call failed, and the request was
\* answered with the upstream's error after exactly three calls.
C9_Witness ==
  \E s \in Slots :
    /\ reqs[s].route = "POST /api/account"
    /\ reqs[s].pc = "done"
    /\ Len(reqs[s].calls) = 3
    /\ ~reqs[s].reply.resolved
    /\ Answer(s).status >= 400

----------------------------------------------------------------------------
(* The event loop runs every handler that can run, and every upstream call *)
(* settles, one way or another.                                            *)

Progress(s) ==
  \/ DomainsHandler(s)
  \/ \E o \in Outcomes(DomainsBodies) : DomainsReply(s, o)
  \/ AccountHandler(s)
  \/ \E o \in Outcomes(DomainsBodies), rand8 \in randString(8), rand16 \in randString(16) :
       AccountDomainsReply(s, o, rand8, rand16)
  \/ \E o \in Outcomes(AccountBodies) : AccountCreateReply(s, o)
  \/ \E o \in Outcomes(TokenBodies) : AccountTokenReply(s, o)
  \/ MessagesHandler(s)
  \/ \E o \in Outcomes(MessagesBodies) : MessagesReply(s, o)
  \/ MessageHandler(s)
  \/ \E o \in Outcomes(MessagesBodies) : MessageReply(s, o)
  \/ DeleteHandler(s)
  \/ \E o \in Outcomes(DeleteBodies) : DeleteReply(s, o)

SpecFair == InitLoaded /\ [][Next]_vars /\ WF_vars(Progress(1))

====
